---- MODULE Spec2Model ----
(***************************************************************************)
(* Model of the beat-to-MIDI converter (src/beat_midi_converter.py) and    *)
(* of the drum loop sampler (src/drum_loop_sampler.py).                    *)
(*                                                                         *)
(* Time.  The Python code handles beat times as floats in seconds.  Here a *)
(* time is an integer number of quanta, UnitsPerMicrosecond quanta to the  *)
(* microsecond, and stands for the float nearest to that many seconds.     *)
(* Arithmetic on times is computed as Python computes it, in binary64      *)
(* floating point: a sum, a difference or a quotient is rounded to the     *)
(* nearest float before it is compared or used.  So 1.5e-06 - 1e-06 is     *)
(* greater than 5e-07 in merge_beats, and in create_tempo_track a quotient *)
(* that lands just below an integer is truncated by int() to one less      *)
(* (0.453125 s gives 453124).  The quantum is smaller than a microsecond   *)
(* so that the truncation to whole microseconds is part of the model.      *)
(*                                                                         *)
(* Downbeat lists are only used through `in`, they are modelled as sets.   *)
(* An exception is modelled by the field `raised` of a result, which holds *)
(* the name of the exception, or "none".                                   *)
(***************************************************************************)
EXTENDS Integers, Sequences, FiniteSets, TLC

\* ------------------------------------------------------------------ bounds
\* beat times of the explored documents lie in 0..MaxTime (quanta)
MaxTime == 3
\* the explored beat lists have at most MaxLen beats
MaxLen == 2
\* the explored primary documents number their beats cyclically 1..bar, bar <= MaxBar
MaxBar == 2
\* the explored tolerances are 0 and Tol (quanta)
Tol == 1
\* time resolution of the model: quanta per microsecond
UnitsPerMicrosecond == 2

\* time_to_beat_position / create_tempo_track: lists of at most MaxBeats beats
MaxBeats == 3
\* ... with times in 0..MaxBeatTime (quanta)
MaxBeatTime == 4
\* sample_drum_loops: the target grid has at most MaxTotal beats
MaxTotal == 20
\* ... prefix_beat is at most MaxPrefix
MaxPrefix == 1
\* ... beats_per_bar is at most MaxBeatsPerBar
MaxBeatsPerBar == 2
\* ... a category that is not empty holds MaxFragments fragments
MaxFragments == 2

UnitsPerSecond == 1000000 * UnitsPerMicrosecond

\* ----------------------------------------------------------- Python helpers
\* the set of the elements of a list
Range(s) == {s[i] : i \in 1..Len(s)}

\* min() and max() of a non-empty list
SeqMin(s) == CHOOSE x \in Range(s) : \A y \in Range(s) : x <= y
SeqMax(s) == CHOOSE x \in Range(s) : \A y \in Range(s) : x >= y

\* zip(a, b): pairs up to the length of the shorter list
Zip(a, b) ==
    LET n == IF Len(a) < Len(b) THEN Len(a) ELSE Len(b)
    IN  [i \in 1..n |-> <<a[i], b[i]>>]

\* range(1, n + 1) as a list
RangeList(n) == [i \in 1..n |-> i]

\* v in list
Contains(s, v) == \E i \in 1..Len(s) : s[i] = v

\* list.index(v), 0-based, for a list that contains v
Index(s, v) == (CHOOSE i \in 1..Len(s) : s[i] = v /\ \A j \in 1..(i - 1) : s[j] # v) - 1

\* list[:n].count(v)
CountBefore(s, n, v) == Cardinality({i \in 1..n : s[i] = v})

\* list.sort(key=lambda x: x[0]): stable, ascending by the first component
RECURSIVE SortByTime(_)
SortByTime(s) ==
    IF s = <<>> THEN <<>>
    ELSE LET x == s[Len(s)]
             r == SortByTime(SubSeq(s, 1, Len(s) - 1))
             n == Cardinality({i \in 1..Len(r) : r[i][1] <= x[1]})
         IN  SubSeq(r, 1, n) \o <<x>> \o SubSeq(r, n + 1, Len(r))

\* ------------------------------------------------------ Python float (binary64)
\* A float > 0 is a record [m, e] of value m * 2^e whose mantissa m has MantissaBits
\* bits; 0.0 has m = 0.  A mantissa, and the naturals of the intermediate results,
\* are held as three limbs of LimbBits bits, the least significant first, which
\* keeps every product and sum within 32 bits.  Exponents stay far from the range
\* limits of binary64 for times between a quantum and 2^31 quanta.
LimbBits == 30
Limb == 2 ^ LimbBits
MantissaBits == 53

\* the limbs of n, 0 <= n < 2^31
Wide(n) == <<n % Limb, n \div Limb, 0>>
WideZero == <<0, 0, 0>>

\* a < b
WideLess(a, b) ==
    \/ a[3] < b[3]
    \/ a[3] = b[3] /\ a[2] < b[2]
    \/ a[3] = b[3] /\ a[2] = b[2] /\ a[1] < b[1]

\* 2 * a + bit
WideDouble(a, bit) ==
    LET s1 == 2 * a[1] + bit
        s2 == 2 * a[2] + s1 \div Limb
        s3 == 2 * a[3] + s2 \div Limb
    IN  <<s1 % Limb, s2 % Limb, s3 % Limb>>

\* a \div 2
WideHalf(a) ==
    <<a[1] \div 2 + (a[2] % 2) * (Limb \div 2),
      a[2] \div 2 + (a[3] % 2) * (Limb \div 2),
      a[3] \div 2>>

\* a - b, for a >= b
WideSub(a, b) ==
    LET d1 == a[1] - b[1]
        b1 == IF d1 < 0 THEN 1 ELSE 0
        d2 == a[2] - b[2] - b1
        b2 == IF d2 < 0 THEN 1 ELSE 0
        d3 == a[3] - b[3] - b2
    IN  <<d1 + b1 * Limb, d2 + b2 * Limb, d3>>

\* a + b, the sum below Limb^3
WideAdd(a, b) ==
    LET s1 == a[1] + b[1]
        s2 == a[2] + b[2] + s1 \div Limb
        s3 == a[3] + b[3] + s2 \div Limb
    IN  <<s1 % Limb, s2 % Limb, s3>>

\* a + 1
WideInc(a) ==
    LET s1 == a[1] + 1
        s2 == a[2] + s1 \div Limb
        s3 == a[3] + s2 \div Limb
    IN  <<s1 % Limb, s2 % Limb, s3>>

\* number of bits of n, 0 <= n < Limb
BitLength(n) == CHOOSE b \in 0..LimbBits : n < 2 ^ b /\ (b = 0 \/ n >= 2 ^ (b - 1))

\* number of bits of a
WideBitLength(a) ==
    IF a[3] > 0 THEN 2 * LimbBits + BitLength(a[3])
    ELSE IF a[2] > 0 THEN LimbBits + BitLength(a[2])
    ELSE BitLength(a[1])

\* a * high for high = 2^k, k < LimbBits, and low = Limb / high
WideScaleUp(a, low, high) ==
    <<(a[1] % low) * high,
      (a[2] % low) * high + a[1] \div low,
      (a[3] % low) * high + a[2] \div low>>

\* a * 2^k, the result below Limb^3
RECURSIVE WideShiftLeft(_, _)
WideShiftLeft(a, k) ==
    IF k >= LimbBits THEN WideShiftLeft(<<0, a[1], a[2]>>, k - LimbBits)
    ELSE WideScaleUp(a, 2 ^ (LimbBits - k), 2 ^ k)

\* a \div low for low = 2^k, k < LimbBits, and high = Limb / low
WideScaleDown(a, low, high) ==
    <<a[1] \div low + (a[2] % low) * high,
      a[2] \div low + (a[3] % low) * high,
      a[3] \div low>>

\* a \div 2^k
RECURSIVE WideShiftRight(_, _)
WideShiftRight(a, k) ==
    IF k >= LimbBits THEN WideShiftRight(<<a[2], a[3], 0>>, k - LimbBits)
    ELSE WideScaleDown(a, 2 ^ k, 2 ^ (LimbBits - k))

\* round to nearest, ties to the even mantissa: kept is rounded up when the
\* dropped bits rest are more than half a unit of kept, or half of it and kept is odd
RoundsUp(kept, rest, half) ==
    \/ WideLess(half, rest)
    \/ rest = half /\ kept[1] % 2 = 1

\* the float m * 2^e of a mantissa m of MantissaBits or, after a carry, one bit more
Renormalised(m, e) ==
    IF WideBitLength(m) > MantissaBits THEN [m |-> WideHalf(m), e |-> e + 1]
                                       ELSE [m |-> m, e |-> e]

\* n * 2^e rounded, where kept is n without its drop low bits
RoundDropping(n, e, drop, kept) ==
    Renormalised(IF RoundsUp(kept, WideSub(n, WideShiftLeft(kept, drop)),
                             WideShiftLeft(Wide(1), drop - 1))
                     THEN WideInc(kept) ELSE kept,
                 e + drop)

\* n * 2^e rounded, for n > 0 of len bits
RoundOfLength(n, e, len) ==
    IF len <= MantissaBits
        THEN [m |-> WideShiftLeft(n, MantissaBits - len), e |-> e - (MantissaBits - len)]
        ELSE RoundDropping(n, e, len - MantissaBits, WideShiftRight(n, len - MantissaBits))

\* the float nearest to n * 2^e, ties to the even mantissa
RoundToFloat(n, e) ==
    IF n = WideZero THEN [m |-> WideZero, e |-> 0]
    ELSE RoundOfLength(n, e, WideBitLength(n))

\* float(n) of an integer 0 <= n < 2^31, exact
FloatOfInt(n) == RoundToFloat(Wide(n), 0)

\* the division starts with the integer bit of a / b, for a < 2 * b
DivideFirst(a, b) ==
    IF WideLess(a, b) THEN [r |-> a, q |-> WideZero]
                      ELSE [r |-> WideSub(a, b), q |-> Wide(1)]

\* the next bit of the quotient q, r2 being twice the remainder so far
DivideBit(r2, q, d) ==
    IF WideLess(r2, d) THEN [r |-> r2, q |-> WideDouble(q, 0)]
                       ELSE [r |-> WideSub(r2, d), q |-> WideDouble(q, 1)]

\* one more bit of the long division by d: s.r is the remainder so far (s.r < d)
\* and s.q the quotient so far
DivideStep(s, d) == DivideBit(WideDouble(s.r, 0), s.q, d)

\* k >= 1 more bits, one half of them after the other; once the remainder is zero
\* the bits that follow are zero
RECURSIVE DivideLoop(_, _, _)
RECURSIVE DivideRest(_, _, _)
DivideLoop(s, d, k) ==
    IF k = 1 THEN DivideStep(s, d)
    ELSE DivideRest(DivideLoop(s, d, k \div 2), d, k - k \div 2)

\* the k bits after the state half
DivideRest(half, d, k) ==
    IF half.r = WideZero THEN [r |-> WideZero, q |-> WideShiftLeft(half.q, k)]
                         ELSE DivideLoop(half, d, k)

\* the quotient is computed to GuardBits bits more than a mantissa holds
GuardBits == 2

\* the quotient bits last.q * 2^e rounded; a remainder makes the quotient inexact
\* and is kept as one more low bit
DivideRounded(last, e) ==
    RoundToFloat(WideDouble(last.q, IF last.r = WideZero THEN 0 ELSE 1), e - 1)

\* x / y of two floats > 0, rounded to the nearest float
FloatDiv(x, y) ==
    DivideRounded(DivideLoop(DivideFirst(x.m, y.m), y.m, MantissaBits + GuardBits),
                  x.e - y.e - (MantissaBits + GuardBits))

\* x < y of two floats >= 0
FloatLess(x, y) ==
    IF y.m = WideZero THEN FALSE
    ELSE IF x.m = WideZero THEN TRUE
    ELSE x.e < y.e \/ (x.e = y.e /\ WideLess(x.m, y.m))

\* x - y of two floats, x >= y >= 0, rounded to the nearest float (the exact
\* difference fits the three limbs while x.e - y.e <= 3 * LimbBits - MantissaBits,
\* which holds for the floats of two times)
FloatSub(x, y) ==
    IF y.m = WideZero THEN x
    ELSE RoundToFloat(WideSub(WideShiftLeft(x.m, x.e - y.e), y.m), y.e)

\* abs(x - y) of two floats >= 0
FloatDistance(x, y) == IF FloatLess(x, y) THEN FloatSub(y, x) ELSE FloatSub(x, y)

\* high + low of two floats > 0 with high.e >= low.e, rounded to the nearest float
AddAligned(high, low) ==
    RoundToFloat(WideAdd(WideShiftLeft(high.m, high.e - low.e), low.m), low.e)

\* x + y of two floats >= 0, rounded to the nearest float
FloatAdd(x, y) ==
    IF y.m = WideZero THEN x
    ELSE IF x.m = WideZero THEN y
    ELSE IF x.e >= y.e THEN AddAligned(x, y) ELSE AddAligned(y, x)

\* int(x) of a float 0 <= x < 2^31: the digits after the point are dropped
FloatToInt(x) ==
    IF -x.e >= MantissaBits THEN 0
    ELSE LET n == WideShiftRight(x.m, -x.e) IN n[1] + n[2] * Limb

\* the float of a time of t quanta: the float nearest to t / UnitsPerSecond seconds
Seconds(t) ==
    IF t = 0 THEN RoundToFloat(WideZero, 0)
    ELSE FloatDiv(FloatOfInt(t), FloatOfInt(UnitsPerSecond))

\* Seconds over the times of the explored documents
TableTimes == 0..((IF MaxTime > MaxBeatTime THEN MaxTime ELSE MaxBeatTime) + 1)
seconds_table == [t \in TableTimes |-> Seconds(t)]

\* Seconds, read from the table where the table has it
FloatTime(t) == IF t \in TableTimes THEN seconds_table[t] ELSE Seconds(t)

\* abs(a - b) and a + b of the floats of two times, tabulated likewise
distance_table ==
    [a \in TableTimes, b \in TableTimes |-> FloatDistance(FloatTime(a), FloatTime(b))]
sum_table ==
    [a \in TableTimes, b \in TableTimes |-> FloatAdd(FloatTime(a), FloatTime(b))]

TimeDistance(a, b) ==
    IF a \in TableTimes /\ b \in TableTimes THEN distance_table[a, b]
    ELSE FloatDistance(FloatTime(a), FloatTime(b))

TimeSum(a, b) ==
    IF a \in TableTimes /\ b \in TableTimes THEN sum_table[a, b]
    ELSE FloatAdd(FloatTime(a), FloatTime(b))

\* ------------------------------------------------- BeatMidiConverter.merge_beats
\* The comparisons of times are made on the floats of the times.
\* b < beat1_start - tolerance: the difference is a float > 0 when tolerance is below
\* beat1_start, and it is <= 0, which no time is below, when it is not
before_start(b, start, tol) ==
    /\ FloatLess(FloatTime(tol), FloatTime(start))
    /\ FloatLess(FloatTime(b), TimeDistance(start, tol))

\* b > beat1_end + tolerance
after_end(b, end, tol) == FloatLess(TimeSum(end, tol), FloatTime(b))

\* abs(beat - filtered_beats[-1][0]) > tolerance
farther_than(b, last, tol) == FloatLess(FloatTime(tol), TimeDistance(b, last))

\* beats of beat2 strictly before the span of beat1, paired with their 1-based index
beat2_before(beat2, beat1_start, tolerance) ==
    LET Keep(x) == before_start(x[1], beat1_start, tolerance)
    IN  SelectSeq(Zip(beat2, RangeList(Len(beat2))), Keep)

\* beats of beat2 strictly after the span of beat1
beat2_after(beat2, beat1_end, tolerance) ==
    LET Keep(x) == after_end(x[1], beat1_end, tolerance)
    IN  SelectSeq(Zip(beat2, RangeList(Len(beat2))), Keep)

\* before + primary + after, sorted by time
merged_beats(beat1, beat2, beat_positions1, tolerance) ==
    SortByTime(beat2_before(beat2, SeqMin(beat1), tolerance)
               \o Zip(beat1, beat_positions1)
               \o beat2_after(beat2, SeqMax(beat1), tolerance))

\* the greedy pass: a beat is kept when it is farther than tolerance from the last kept one
RECURSIVE Dedup(_, _, _)
Dedup(kept, rest, tolerance) ==
    IF rest = <<>> THEN kept
    ELSE LET x == Head(rest)
         IN  Dedup(IF farther_than(x[1], kept[Len(kept)][1], tolerance)
                       THEN Append(kept, x) ELSE kept,
                   Tail(rest), tolerance)

\* mutant: the greedy pass keeps a beat that is exactly tolerance away
RECURSIVE DedupAtLeast(_, _, _)
DedupAtLeast(kept, rest, tolerance) ==
    IF rest = <<>> THEN kept
    ELSE LET x == Head(rest)
         IN  DedupAtLeast(IF ~FloatLess(TimeDistance(x[1], kept[Len(kept)][1]), FloatTime(tolerance))
                              THEN Append(kept, x) ELSE kept,
                          Tail(rest), tolerance)
filtered_beats_at_least(merged, tolerance) ==
    DedupAtLeast(<<merged[1]>>, Tail(merged), tolerance)

filtered_beats(merged, tolerance) == Dedup(<<merged[1]>>, Tail(merged), tolerance)

final_beats(filtered) == [i \in 1..Len(filtered) |-> filtered[i][1]]

\* mutant: only the primary downbeats flag a beat
downbeat_flags_primary(beats, downbeats1, downbeats2) ==
    [i \in 1..Len(beats) |-> IF beats[i] \in downbeats1 THEN 1 ELSE 0]

\* first value of final_positions: 1 for a time of either downbeat list, else 0
downbeat_flags(beats, downbeats1, downbeats2) ==
    [i \in 1..Len(beats) |-> IF beats[i] \in downbeats1 \/ beats[i] \in downbeats2 THEN 1 ELSE 0]

num_beats_per_quarter(beat_positions1) == SeqMax(beat_positions1)

num_start_beats_before_downbeat(flags) == CountBefore(flags, Index(flags, 1), 0)

\* mutant: the renumbering starts one position early
start_number_early(bar, k) == bar - k

start_number(bar, k) == bar - k + 1

\* mutant: a remainder of 0 is left as it is
final_positions_unwrapped(n, bar, k) ==
    [i \in 1..n |-> (bar - k + 1 + (i - 1)) % bar]

\* the cyclic renumbering of the surviving beats
final_positions(n, bar, k) ==
    [i \in 1..n |->
        LET beat_num == (start_number(bar, k) + (i - 1)) % bar
        IN  IF beat_num # 0 THEN beat_num ELSE bar]

\* positions of the early returns: 1 for a downbeat, 2 for any other beat
fallback_positions(beats, downbeats) ==
    [i \in 1..Len(beats) |-> IF beats[i] \in downbeats THEN 1 ELSE 2]

MergeRaised(exc) ==
    [raised |-> exc, kind |-> "none", beats |-> <<>>, beat_positions |-> <<>>, downbeats |-> {}]

\* the return of the main branch: the downbeats are the beats renumbered 1
merge_result(fb, fp) ==
    [raised |-> "none", kind |-> "tuple", beats |-> fb, beat_positions |-> fp,
     downbeats |-> {fb[i] : i \in {j \in 1..Len(fb) : fp[j] = 1}}]

\* the renumbering of the surviving beats fb, flagged flags, in bars of bar beats
merge_renumbered(fb, flags, bar) ==
    IF ~Contains(flags, 1) THEN MergeRaised("ValueError")
    ELSE IF bar = 0 THEN MergeRaised("ZeroDivisionError")
    ELSE merge_result(fb, final_positions(Len(fb), bar, num_start_beats_before_downbeat(flags)))

\* the main branch from the sorted list on: filtered_beats[0] of an empty list is
\* an IndexError and max of an empty beat_positions1 a ValueError
merge_sorted(merged, beat_positions1, downbeats1, downbeats2, tolerance) ==
    IF merged = <<>> THEN MergeRaised("IndexError")
    ELSE IF beat_positions1 = <<>> THEN MergeRaised("ValueError")
    ELSE merge_renumbered(final_beats(filtered_beats(merged, tolerance)),
                          downbeat_flags(final_beats(filtered_beats(merged, tolerance)),
                                         downbeats1, downbeats2),
                          num_beats_per_quarter(beat_positions1))

\* kind is "dict" for the two early returns and "tuple" for the main branch
merge_beats(beat1, beat2, beat_positions1, downbeats1, downbeats2, tolerance) ==
    IF beat1 = <<>> THEN
        [raised |-> "none", kind |-> "dict", beats |-> beat2,
         beat_positions |-> fallback_positions(beat2, downbeats2), downbeats |-> downbeats2]
    ELSE IF beat2 = <<>> THEN
        [raised |-> "none", kind |-> "dict", beats |-> beat1,
         beat_positions |-> fallback_positions(beat1, downbeats1), downbeats |-> downbeats1]
    ELSE merge_sorted(merged_beats(beat1, beat2, beat_positions1, tolerance),
                      beat_positions1, downbeats1, downbeats2, tolerance)

\* ---------------------------------------- BeatMidiConverter.time_to_beat_position
\* the first 0-based index i with beats[i] >= time_seconds, or len(beats) when there is none
FirstAtOrAfter(time_seconds, beats) ==
    Cardinality({i \in 1..Len(beats) : \A j \in 1..i : beats[j] < time_seconds})

\* The result is a float.  The sign of a float difference is the sign of the
\* difference in quanta; time_offset and extra_time are > 0 where they are computed.
time_to_beat_position(time_seconds, beats) ==
    IF beats = <<>> THEN FloatOfInt(0)
    ELSE LET i == FirstAtOrAfter(time_seconds, beats)
             n == Len(beats)
         IN  IF i < n THEN
                 IF i = 0 THEN FloatOfInt(0)
                 ELSE LET prev_beat_time == beats[i]
                          beat_time      == beats[i + 1]
                          beat_interval  == TimeDistance(beat_time, prev_beat_time)
                          time_offset    == TimeDistance(time_seconds, prev_beat_time)
                      IN  IF beat_time - prev_beat_time > 0
                              THEN FloatAdd(FloatOfInt(i), FloatDiv(time_offset, beat_interval))
                              ELSE FloatOfInt(i)
             ELSE IF n >= 2 /\ beats[n] - beats[n - 1] > 0
                 THEN LET last_interval == TimeDistance(beats[n], beats[n - 1])
                          extra_time    == TimeDistance(time_seconds, beats[n])
                      IN  FloatAdd(FloatOfInt(n), FloatDiv(extra_time, last_interval))
             ELSE FloatOfInt(n)

\* ------------------------------------------- BeatMidiConverter.create_tempo_track
ticks_per_beat == 480

\* bpm = 60.0 / interval; tempo = int(60_000_000 / bpm), for a float interval > 0
interval_to_tempo(interval) ==
    FloatToInt(FloatDiv(FloatOfInt(60000000), FloatDiv(FloatOfInt(60), interval)))

\* interval = beats[i] - beats[i - 1] and its tempo, for beat times prev < cur in quanta.
\* With prev = 0 it is the tempo of the lead-in, whose interval is real_start_time
\* itself (x - 0.0 is x).
beat_tempo(prev, cur) == interval_to_tempo(TimeDistance(cur, prev))

\* beat_tempo over the beat times of the explored documents
tempo_table ==
    [prev \in TableTimes, cur \in TableTimes |-> IF prev < cur THEN beat_tempo(prev, cur) ELSE 0]

\* beat_tempo, read from the table where the table has it
tempo_of(prev, cur) ==
    IF prev \in TableTimes /\ cur \in TableTimes THEN tempo_table[prev, cur]
    ELSE beat_tempo(prev, cur)

\* sum(m.time for m in track if hasattr(m, "time"))
RECURSIVE SumTime(_)
SumTime(track) ==
    IF track = <<>> THEN 0 ELSE track[Len(track)].time + SumTime(SubSeq(track, 1, Len(track) - 1))

\* the loop `for i in range(1, len(beats))`, from its iteration i (0-based index into beats)
RECURSIVE TempoLoop(_, _, _, _)
TempoLoop(beats, i, current_tick, track) ==
    IF i >= Len(beats) THEN track
    ELSE LET tick        == current_tick + (i - 1) * ticks_per_beat
             delta_ticks == tick - SumTime(track)
             \* the sign of the float interval is the sign of the difference in quanta
             interval    == beats[i + 1] - beats[i]
         IN  IF interval <= 0
                 THEN TempoLoop(beats, i + 1, current_tick, track)
                 ELSE TempoLoop(beats, i + 1, current_tick,
                                Append(track, [type |-> "set_tempo",
                                               tempo |-> tempo_of(beats[i], beats[i + 1]),
                                               time |-> delta_ticks]))

\* the track built for a non-empty beat list
create_tempo_track(beats) ==
    LET name_msg        == [type |-> "track_name", time |-> 0]
        real_start_time == beats[1]
        lead            == IF real_start_time > 0
                               THEN <<name_msg, [type |-> "set_tempo",
                                                 tempo |-> tempo_of(0, real_start_time),
                                                 time |-> 0]>>
                               ELSE <<name_msg>>
        current_tick    == IF real_start_time > 0 THEN ticks_per_beat ELSE 0
    IN  Append(TempoLoop(beats, 1, current_tick, lead), [type |-> "end_of_track", time |-> 0])

\* ----------------------------------------------- BeatMidiConverter.generate_midi
\* A beat document is a record; beat_data2.present is the truth value of the dict
\* (None and {} are false).  The documents carry no "segments", so markers is
\* empty and no marker track is built.
MidiRaised(exc, saved, fb) ==
    [raised |-> exc, prefix_beat |-> -1, saved |-> saved,
     final_beats |-> fb, beat_positions |-> <<>>, tempo_track |-> <<>>]

\* mutant: the 1-based index of the first downbeat
prefix_of_one_based(beat_positions) == Index(beat_positions, 1) + 1

\* prefix_beat = beat_positions.index(1) on the tuple that merge_beats returned
prefix_of(beat_positions) == Index(beat_positions, 1)

\* generate_midi after merge_beats returned m; final_beats and beat_positions are
\* the locals of those names
midi_of_merge(m) ==
    IF m.raised # "none" THEN MidiRaised(m.raised, FALSE, <<>>)
    \* unpacking the dict of an early return yields its three keys, and
    \* "beat_positions".index(1) is a TypeError
    ELSE IF m.kind = "dict" THEN MidiRaised("TypeError", FALSE, <<>>)
    ELSE IF ~Contains(m.beat_positions, 1) THEN MidiRaised("ValueError", FALSE, <<>>)
    ELSE [raised |-> "none", prefix_beat |-> prefix_of(m.beat_positions),
          saved |-> TRUE, final_beats |-> m.beats,
          beat_positions |-> m.beat_positions,
          tempo_track |-> create_tempo_track(m.beats)]

generate_midi(bd1, bd2, tolerance) ==
    IF bd2.present THEN
        midi_of_merge(merge_beats(bd1.beats, bd2.beats, bd1.beat_positions,
                                  bd1.downbeats, bd2.downbeats, tolerance))
    ELSE
        \* create_tempo_track reads beats[0]
        IF bd1.beats = <<>> THEN MidiRaised("IndexError", FALSE, <<>>)
        \* the file is saved, then `return prefix_beat` reads an unbound local
        ELSE [raised |-> "UnboundLocalError", prefix_beat |-> -1, saved |-> TRUE,
              final_beats |-> bd1.beats, beat_positions |-> <<>>,
              tempo_track |-> create_tempo_track(bd1.beats)]

\* -------------------------------------------- DrumLoopSampler.sample_drum_loops
Categories == {"start", "regular", "transition-small", "transition-big", "end"}

\* mutant: the two transition steps of the rotation are exchanged
mid_sampling_order_swapped == <<"regular", "transition-big", "regular", "transition-small">>

mid_sampling_order == <<"regular", "transition-small", "regular", "transition-big">>

start_loop_length(bar, prefix) == bar * 4 + prefix + 1
mid_loop_length(bar) == bar * 2
end_loop_length(bar) == bar * 5

\* --------------------------------------------------------------------- state
VARIABLES
    beat_data1,       \* generate_midi / merge_beats: the primary document
    beat_data2,       \* the secondary document
    tolerance,        \* the merge tolerance
    merge_ret,        \* what merge_beats returned
    midi_ret,         \* what generate_midi returned
    beats,            \* time_to_beat_position / create_tempo_track: the beat list
    time_seconds,     \* time_to_beat_position: the time
    beat_position,    \* what time_to_beat_position returned
    tempo_track,      \* what create_tempo_track returned
    all_drum_events,  \* sample_drum_loops: number of fragments of each category
    total_beats,      \* len(target_beats)
    prefix_beat,      \* the prefix_beat argument
    beats_per_bar,    \* self.beats_per_bar
    current_beat_idx, \* the cursor
    mid_order_index,  \* the rotation index
    track,            \* the drum track: the fragments appended so far
    saved,            \* the output file has been written
    pc                \* position of the running call

mergeVars == <<beat_data1, beat_data2, tolerance, merge_ret, midi_ret>>
trackVars == <<beats, time_seconds, beat_position, tempo_track>>
samplerVars == <<all_drum_events, total_beats, prefix_beat, beats_per_bar,
                 current_beat_idx, mid_order_index, track, saved>>
vars == <<mergeVars, trackVars, samplerVars, pc>>

NoMerge == MergeRaised("none")
NoMidi == MidiRaised("none", FALSE, <<>>)

MergeIdle ==
    /\ beat_data1 = [beats |-> <<>>, beat_positions |-> <<>>, downbeats |-> {}]
    /\ beat_data2 = [present |-> FALSE, beats |-> <<>>, downbeats |-> {}]
    /\ tolerance = 0
    /\ merge_ret = NoMerge
    /\ midi_ret = NoMidi

TrackIdle ==
    /\ beats = <<>>
    /\ time_seconds = 0
    /\ beat_position = FloatOfInt(0)
    /\ tempo_track = <<>>

SamplerIdle ==
    /\ all_drum_events = [c \in Categories |-> 0]
    /\ total_beats = 0
    /\ prefix_beat = 0
    /\ beats_per_bar = 1
    /\ current_beat_idx = 0
    /\ mid_order_index = 0
    /\ track = <<>>
    /\ saved = FALSE

\* ------------------------------------------------ merge_beats and generate_midi
\* all beat lists of at most MaxLen beats, in any order, ties included
BeatLists == UNION {[1..n -> 0..MaxTime] : n \in 0..MaxLen}

IsIncreasing(s) == \A i \in 1..(Len(s) - 1) : s[i] < s[i + 1]

\* beat_positions of a primary document of n beats in bars of `bar` beats
CyclicPositions(n, bar) == [i \in 1..n |-> ((i - 1) % bar) + 1]

PrimaryDocs ==
    {[beats |-> b, beat_positions |-> CyclicPositions(Len(b), bar), downbeats |-> d] :
        <<b, bar, d>> \in {x \in BeatLists \X (1..MaxBar) \X SUBSET (0..MaxTime) :
                              x[3] \subseteq Range(x[1])}}

SecondaryDocs ==
    {[present |-> TRUE, beats |-> x[1], downbeats |-> x[2]] :
        x \in {y \in BeatLists \X SUBSET (0..MaxTime) :
                  IsIncreasing(y[1]) /\ y[2] \subseteq Range(y[1])}}
    \cup {[present |-> FALSE, beats |-> <<>>, downbeats |-> {}]}

\* the scenario of the specification, in tenths of a second
Tenths(s) == [i \in 1..Len(s) |-> s[i] * (UnitsPerSecond \div 10)]
ScenarioData1 ==
    [beats |-> Tenths(<<10, 15, 20>>), beat_positions |-> <<1, 2, 3>>,
     downbeats |-> Range(Tenths(<<10>>))]
ScenarioData2 ==
    [present |-> TRUE, beats |-> Tenths(<<0, 5, 10, 15, 20, 25, 30>>),
     downbeats |-> Range(Tenths(<<0>>))]
ScenarioTolerance == 3 * (UnitsPerSecond \div 10)

IsScenario ==
    beat_data1 = ScenarioData1 /\ beat_data2 = ScenarioData2 /\ tolerance = ScenarioTolerance

Init ==
    /\ \/ /\ beat_data1 \in PrimaryDocs
          /\ beat_data2 \in SecondaryDocs
          /\ tolerance \in {0, Tol}
       \/ IsScenario
    /\ merge_ret = NoMerge
    /\ midi_ret = NoMidi
    /\ TrackIdle
    /\ SamplerIdle
    /\ pc = "ready"

\* a direct call of merge_beats on the lists of the two documents
MergeBeats ==
    /\ pc = "ready"
    /\ merge_ret' = merge_beats(beat_data1.beats, beat_data2.beats, beat_data1.beat_positions,
                                beat_data1.downbeats, beat_data2.downbeats, tolerance)
    /\ pc' = "merged"
    /\ UNCHANGED <<beat_data1, beat_data2, tolerance, midi_ret, trackVars, samplerVars>>

\* a call of generate_midi on the two documents
GenerateMidi ==
    /\ pc = "ready"
    /\ midi_ret' = generate_midi(beat_data1, beat_data2, tolerance)
    /\ pc' = "generated"
    /\ UNCHANGED <<beat_data1, beat_data2, tolerance, merge_ret, trackVars, samplerVars>>

Next == MergeBeats \/ GenerateMidi

Spec == Init /\ [][Next]_vars

\* ------------------------------------------------------- time_to_beat_position
TrackBeatLists == UNION {[1..n -> 0..MaxBeatTime] : n \in 0..MaxBeats}

InitMarker ==
    /\ beats \in TrackBeatLists
    /\ time_seconds \in 0..(MaxBeatTime + 1)
    /\ beat_position = FloatOfInt(0)
    /\ tempo_track = <<>>
    /\ MergeIdle
    /\ SamplerIdle
    /\ pc = "ready"

TimeToBeatPosition ==
    /\ pc = "ready"
    /\ beat_position' = time_to_beat_position(time_seconds, beats)
    /\ pc' = "projected"
    /\ UNCHANGED <<beats, time_seconds, tempo_track, mergeVars, samplerVars>>

NextMarker == TimeToBeatPosition

SpecMarker == InitMarker /\ [][NextMarker]_vars

\* ----------------------------------------------------------- create_tempo_track
InitTempo ==
    /\ beats \in TrackBeatLists
    /\ time_seconds = 0
    /\ beat_position = FloatOfInt(0)
    /\ tempo_track = <<>>
    /\ MergeIdle
    /\ SamplerIdle
    /\ pc = "ready"

\* beats[0] of an empty list is an IndexError
CreateTempoTrack ==
    /\ pc = "ready"
    /\ IF beats = <<>>
           THEN tempo_track' = <<>> /\ pc' = "raised"
           ELSE tempo_track' = create_tempo_track(beats) /\ pc' = "built"
    /\ UNCHANGED <<beats, time_seconds, beat_position, mergeVars, samplerVars>>

NextTempo == CreateTempoTrack

SpecTempo == InitTempo /\ [][NextTempo]_vars

\* ------------------------------------------------------------ sample_drum_loops
\* The library is what the directory walk loaded and total_beats is
\* len(get_target_beats(target_midi)); a fragment is named by its index in its
\* category, and the drum track lists the fragments appended to it.
InitSampler ==
    /\ \E empty \in SUBSET Categories :
          all_drum_events = [c \in Categories |-> IF c \in empty THEN 0 ELSE MaxFragments]
    /\ total_beats \in 0..MaxTotal
    /\ prefix_beat \in 0..MaxPrefix
    /\ beats_per_bar \in 1..MaxBeatsPerBar
    /\ current_beat_idx = 0
    /\ mid_order_index = 0
    /\ track = <<>>
    /\ saved = FALSE
    /\ MergeIdle
    /\ TrackIdle
    /\ pc = "start"

samplerInputs == <<all_drum_events, total_beats, prefix_beat, beats_per_bar>>

\* mutant: an empty category is skipped instead of raising
Draw_skip_empty(category, shifted, next_pc, width) ==
    IF all_drum_events[category] = 0
        THEN /\ pc' = next_pc
             /\ current_beat_idx' = current_beat_idx + width
             /\ UNCHANGED track
        ELSE /\ \E f \in 1..all_drum_events[category] :
                    track' = Append(track,
                        [category |-> category, fragment |-> f,
                         shift |-> IF shifted /\ track = <<>>
                                       THEN 480 * (prefix_beat + 1) ELSE 0])
             /\ current_beat_idx' = current_beat_idx + width
             /\ pc' = next_pc

\* random.choice(all_drum_events[category]) and the loop that appends its events;
\* the first event appended to an empty track is shifted by 480 * (prefix_beat + 1).
\* random.choice of an empty list raises IndexError, which ends the call.
Draw(category, shifted, next_pc, width) ==
    IF all_drum_events[category] = 0
        THEN /\ pc' = "raised"
             /\ UNCHANGED <<current_beat_idx, track>>
        ELSE /\ \E f \in 1..all_drum_events[category] :
                    track' = Append(track,
                        [category |-> category, fragment |-> f,
                         shift |-> IF shifted /\ track = <<>>
                                       THEN 480 * (prefix_beat + 1) ELSE 0])
             /\ current_beat_idx' = current_beat_idx + width
             /\ pc' = next_pc

\* 1. the start region
StartRegion ==
    /\ pc = "start"
    /\ IF current_beat_idx < start_loop_length(beats_per_bar, prefix_beat)
           THEN Draw("start", TRUE, "mid", start_loop_length(beats_per_bar, prefix_beat))
           ELSE pc' = "mid" /\ UNCHANGED <<current_beat_idx, track>>
    /\ UNCHANGED <<samplerInputs, mid_order_index, saved, mergeVars, trackVars>>

\* 2. one iteration of the while loop of the middle region
MidRegion ==
    /\ pc = "mid"
    /\ current_beat_idx < total_beats - end_loop_length(beats_per_bar)
    /\ LET current_mid_type ==
               mid_sampling_order[(mid_order_index % Len(mid_sampling_order)) + 1]
       IN  Draw(current_mid_type, FALSE, "mid", mid_loop_length(beats_per_bar))
    /\ mid_order_index' = IF pc' = "raised" THEN mid_order_index ELSE mid_order_index + 1
    /\ UNCHANGED <<samplerInputs, saved, mergeVars, trackVars>>

\* 3. the end region, then target_midi.save(output_file)
EndRegion ==
    /\ pc = "mid"
    /\ ~(current_beat_idx < total_beats - end_loop_length(beats_per_bar))
    /\ IF current_beat_idx < total_beats
           THEN Draw("end", FALSE, "done", end_loop_length(beats_per_bar))
           ELSE pc' = "done" /\ UNCHANGED <<current_beat_idx, track>>
    /\ saved' = (pc' = "done")
    /\ UNCHANGED <<samplerInputs, mid_order_index, mergeVars, trackVars>>

NextSampler == StartRegion \/ MidRegion \/ EndRegion

SpecSampler == InitSampler /\ [][NextSampler]_vars

\* sample_drum_loops is synchronous, single-threaded code: a call that can take a
\* step takes it.
SpecSamplerLive == InitSampler /\ [][NextSampler]_vars /\ WF_vars(NextSampler)

\* ==================================================================== claims
\* both beat lists are non-empty: merge_beats takes its main branch
MainBranch == beat_data1.beats # <<>> /\ beat_data2.beats # <<>>

MergeReturned == pc = "merged" /\ merge_ret.raised = "none"

\* beatsPerBar of the claims: max(beat_positions1)
BeatsPerBar == SeqMax(beat_data1.beat_positions)

\* a time of either source's downbeat set
IsDownbeatTime(t) == t \in beat_data1.downbeats \/ t \in beat_data2.downbeats

\* k of the claims: the number of beats of a surviving list that precede its first
\* beat flagged as a downbeat
LeadingBeats(bs) ==
    Cardinality({i \in 1..Len(bs) : \A j \in 1..i : ~IsDownbeatTime(bs[j])})

\* C1 (as claimed): with a non-empty primary timeline and an empty secondary beat
\* list, merge_beats returns the primary beats with the positions of beat_positions1.
C1_PrimaryPositionsUntouched ==
    (pc = "merged" /\ beat_data1.beats # <<>> /\ beat_data2.beats = <<>>)
        => /\ merge_ret.raised = "none"
           /\ merge_ret.beats = beat_data1.beats
           /\ merge_ret.beat_positions = beat_data1.beat_positions

\* C2: when merge_beats returns from its main branch, the returned beat times are
\* strictly increasing and no two of them are closer than the tolerance, neither as
\* times nor by the float difference of their floats.
C2_MinSpacing ==
    (MergeReturned /\ MainBranch)
        => \A i, j \in 1..Len(merge_ret.beats) :
               i < j => /\ merge_ret.beats[i] < merge_ret.beats[j]
                        /\ merge_ret.beats[j] - merge_ret.beats[i] >= tolerance
                        /\ ~FloatLess(TimeDistance(merge_ret.beats[j], merge_ret.beats[i]),
                                      FloatTime(tolerance))

\* C2 witness: a main-branch merge of an unsorted primary list with a positive
\* tolerance, where the greedy pass removed a beat and kept at least two.
C2_Witness ==
    /\ MergeReturned /\ MainBranch
    /\ tolerance > 0
    /\ ~IsIncreasing(beat_data1.beats)
    /\ Len(merge_ret.beats) >= 2
    /\ Len(merge_ret.beats) <
           Len(merged_beats(beat_data1.beats, beat_data2.beats,
                            beat_data1.beat_positions, tolerance))

\* C3: when merge_beats returns from its main branch, every returned position lies
\* in 1..beatsPerBar, and from the first returned downbeat on each position is the
\* previous one plus 1, a position of beatsPerBar being followed by 1.
C3_CyclicPositions ==
    (MergeReturned /\ MainBranch)
        => LET p == merge_ret.beat_positions
           IN  /\ Len(p) = Len(merge_ret.beats)
               /\ \A i \in 1..Len(p) : p[i] \in 1..BeatsPerBar
               /\ \A i \in 1..(Len(p) - 1) :
                      (\E j \in 1..i : p[j] = 1)
                          => p[i + 1] = IF p[i] = BeatsPerBar THEN 1 ELSE p[i] + 1

\* C3 witness: a returned timeline of at least three beats in bars of two beats or
\* more, whose first downbeat is not its first beat and which wraps around.
C3_Witness ==
    /\ MergeReturned /\ MainBranch
    /\ BeatsPerBar >= 2
    /\ Len(merge_ret.beat_positions) >= 3
    /\ merge_ret.beat_positions[1] # 1
    /\ \E i \in 2..Len(merge_ret.beat_positions) :
           merge_ret.beat_positions[i] = 1 /\ merge_ret.beat_positions[i - 1] = BeatsPerBar

\* the seven beats of the scenario
ScenarioBeats == Tenths(<<0, 5, 10, 15, 20, 25, 30>>)

\* C5 (as claimed): in the scenario merge_beats returns all seven beats, the beat at
\* 1.0 s gets position 1 and the two beats before it are leading non-downbeats.
C5_ScenarioAnchoredAtPrimaryDownbeat ==
    (pc = "merged" /\ IsScenario)
        => /\ merge_ret.raised = "none"
           /\ merge_ret.beats = ScenarioBeats
           /\ merge_ret.beat_positions[3] = 1
           /\ merge_ret.beat_positions[1] # 1
           /\ merge_ret.beat_positions[2] # 1

\* C5 (amended): in the scenario merge_beats returns all seven beats; the beat at
\* 0.0 s is a secondary downbeat that survives, so the renumbering is anchored there
\* (no leading beat): the positions are 1,2,3,1,2,3,1 and the beat at 1.0 s gets 3.
C5_ScenarioAnchoredAtFirstBeat ==
    (pc = "merged" /\ IsScenario)
        => /\ merge_ret.raised = "none"
           /\ merge_ret.beats = ScenarioBeats
           /\ merge_ret.beat_positions = <<1, 2, 3, 1, 2, 3, 1>>
           /\ merge_ret.downbeats = {ScenarioBeats[1], ScenarioBeats[4], ScenarioBeats[7]}

\* C5 witness: merge_beats has returned on the scenario
C5_Witness == MergeReturned /\ IsScenario /\ Len(merge_ret.beats) = 7

\* C6 (as claimed): merge_beats does not raise when both beat lists are non-empty.
C6_MainBranchNeverRaises ==
    (pc = "merged" /\ MainBranch) => merge_ret.raised = "none"

\* C9 (as claimed): the surviving beat at index i (from 0) gets the position
\* (beatsPerBar - k + i) mod beatsPerBar, 0 standing for beatsPerBar.
C9_PositionFormulaAsClaimed ==
    (MergeReturned /\ MainBranch)
        => LET k == LeadingBeats(merge_ret.beats)
           IN  \A i \in 0..(Len(merge_ret.beats) - 1) :
                   merge_ret.beat_positions[i + 1] =
                       LET r == (BeatsPerBar - k + i) % BeatsPerBar
                       IN  IF r = 0 THEN BeatsPerBar ELSE r

\* C9 (amended): the surviving beat at index i (from 0) gets the position
\* (beatsPerBar - k + 1 + i) mod beatsPerBar, 0 standing for beatsPerBar; the first
\* flagged beat (i = k) gets position 1 whenever beatsPerBar > 1.
C9_PositionFormula ==
    (MergeReturned /\ MainBranch)
        => LET k == LeadingBeats(merge_ret.beats)
           IN  \A i \in 0..(Len(merge_ret.beats) - 1) :
                   merge_ret.beat_positions[i + 1] =
                       LET r == (BeatsPerBar - k + 1 + i) % BeatsPerBar
                       IN  IF r = 0 THEN BeatsPerBar ELSE r

\* C9 witness: a returned timeline with leading beats before its first flagged beat,
\* in bars of two beats or more.
C9_Witness ==
    /\ MergeReturned /\ MainBranch
    /\ BeatsPerBar >= 2
    /\ LeadingBeats(merge_ret.beats) >= 1
    /\ Len(merge_ret.beats) >= 3

MidiReturned == pc = "generated" /\ midi_ret.raised = "none"

\* C10 (as claimed): the prefix_beat that generate_midi returns from a merge of two
\* non-empty timelines is k, whatever k.
C10_PrefixIsLeadingBeats ==
    (MidiReturned /\ beat_data2.present /\ MainBranch)
        => midi_ret.prefix_beat = LeadingBeats(midi_ret.final_beats)

\* C10 (amended): that prefix_beat is k mod beatsPerBar, the index of the first beat
\* whose renumbered position is 1; it is k exactly when k < beatsPerBar.
C10_PrefixIsLeadingBeatsModBar ==
    (MidiReturned /\ beat_data2.present /\ MainBranch)
        => /\ midi_ret.prefix_beat = LeadingBeats(midi_ret.final_beats) % BeatsPerBar
           /\ midi_ret.beat_positions[midi_ret.prefix_beat + 1] = 1
           /\ \A i \in 1..midi_ret.prefix_beat : midi_ret.beat_positions[i] # 1

\* C10 witness: generate_midi returned with k >= beatsPerBar >= 2
C10_Witness ==
    /\ MidiReturned /\ beat_data2.present /\ MainBranch
    /\ BeatsPerBar >= 2
    /\ LeadingBeats(midi_ret.final_beats) >= BeatsPerBar

\* C4 (as claimed): for a non-empty strictly increasing beat list,
\* time_to_beat_position(beats[i], beats) is i for every index i (from 0).
C4_BeatTimeMapsToItsIndex ==
    (pc = "projected" /\ beats # <<>> /\ IsIncreasing(beats))
        => \A i \in 1..Len(beats) :
               time_seconds = beats[i]
                   => beat_position = FloatOfInt(i - 1)

\* the category the next step of sample_drum_loops draws from, "none" when it draws nothing
NextDrawCategory ==
    IF pc = "start" /\ current_beat_idx < beats_per_bar * 4 + prefix_beat + 1 THEN "start"
    ELSE IF pc = "mid" /\ current_beat_idx < total_beats - beats_per_bar * 5
        THEN <<"regular", "transition-small", "regular", "transition-big">>[
                 (mid_order_index % 4) + 1]
    ELSE IF pc = "mid" /\ current_beat_idx < total_beats THEN "end"
    ELSE "none"

\* C7: in sample_drum_loops, when the category of the next draw holds no fragment the
\* step raises: nothing is appended to the track and the file is not written; and
\* after the raise no further fragment is appended and the file is never written.
C7_EmptyCategoryAborts ==
    [][ /\ (NextDrawCategory # "none" /\ all_drum_events[NextDrawCategory] = 0)
              => (pc' = "raised" /\ track' = track /\ saved' = FALSE)
        /\ pc = "raised" => (pc' = "raised" /\ track' = track /\ saved' = FALSE)
        /\ saved' => pc' = "done" ]_vars

\* C7 witness: the call raised in the middle region, after fragments of the start
\* and of the middle region were appended, and wrote no file.
C7_Witness ==
    /\ pc = "raised"
    /\ Len(track) >= 2
    /\ all_drum_events["start"] > 0
    /\ ~saved

\* C8 (as claimed): on a non-empty beat list every set_tempo message of
\* create_tempo_track has a delta time >= 0 and a tempo that is a positive integer.
C8_TempoEventsMonotoneAndPositive ==
    pc = "built"
        => \A i \in 1..Len(tempo_track) :
               tempo_track[i].type = "set_tempo"
                   => /\ tempo_track[i].time >= 0
                      /\ tempo_track[i].tempo \in Nat \ {0}

\* the categories of the fragments of the drum track, in the order of the draws
DrawnCategories == [i \in 1..Len(track) |-> track[i].category]

AllCategoriesFilled == \A c \in Categories : all_drum_events[c] > 0

\* the cursor after the start region, as the claim gives it
CursorAfterStart == 4 * beats_per_bar + prefix_beat + 1

\* the number of draws of the middle region: the draws j = 0, 1, ... made while the
\* cursor CursorAfterStart + 2 * beats_per_bar * j is below total - 5 * beats_per_bar
MidDraws ==
    Cardinality({j \in 0..total_beats :
        CursorAfterStart + 2 * beats_per_bar * j < total_beats - 5 * beats_per_bar})

\* start, then rotation[j mod 4] for each draw of the middle region
StartAndMidCategories ==
    <<"start">> \o
    [j \in 1..MidDraws |->
        <<"regular", "transition-small", "regular", "transition-big">>[((j - 1) % 4) + 1]]

IsPrefix(s, t) == Len(s) <= Len(t) /\ \A i \in 1..Len(s) : s[i] = t[i]

\* C11 (as claimed): with all categories filled and total >= 1, a finished call has
\* drawn from start, then from the rotation, then once from end.
C11_AlwaysEndsWithEndDraw ==
    (pc = "done" /\ AllCategoriesFilled /\ total_beats >= 1)
        => DrawnCategories = StartAndMidCategories \o <<"end">>

\* the draws of a whole call: the end region draws only when the cursor it is
\* reached with is below total
ExpectedCategories ==
    StartAndMidCategories \o
    (IF CursorAfterStart + 2 * beats_per_bar * MidDraws < total_beats
         THEN <<"end">> ELSE <<>>)

\* C11 (amended): with all categories filled and total >= 1, the draws are one from
\* start, then rotation[j mod 4] for j = 0, 1, ... while the cursor (starting at
\* 4*beatsPerBar + prefixBeat + 1, advancing by 2*beatsPerBar) is below
\* total - 5*beatsPerBar, then one from end only if the cursor is then below total,
\* that is (no middle draw being made otherwise) unless
\* total <= 4*beatsPerBar + prefixBeat + 1; the regions are traversed in that order,
\* the call never raises, and it terminates with the file written.
C11_DrawSequence ==
    /\ [](  (AllCategoriesFilled /\ total_beats >= 1)
              => /\ pc # "raised"
                 /\ IsPrefix(DrawnCategories, ExpectedCategories)
                 /\ pc = "mid" =>
                        current_beat_idx = CursorAfterStart
                                           + 2 * beats_per_bar * (Len(track) - 1)
                 /\ pc = "done" => (DrawnCategories = ExpectedCategories /\ saved)
                 /\ (total_beats <= CursorAfterStart /\ pc = "done")
                        => DrawnCategories = <<"start">>)
    /\ (AllCategoriesFilled /\ total_beats >= 1) ~> (pc = "done")

\* C11 witness: a finished call that went through the rotation and into its second
\* round (five draws of the middle region) and drew from end.
C11_Witness ==
    /\ pc = "done" /\ AllCategoriesFilled
    /\ Len(track) = 7
    /\ track[6].category = "regular"
    /\ track[7].category = "end"

\* C12 (as claimed): generate_midi with a non-empty primary document and an empty or
\* absent secondary document completes without raising.
C12_EmptySecondaryIsNoError ==
    (pc = "generated" /\ beat_data1.beats # <<>> /\ beat_data2.beats = <<>>)
        => midi_ret.raised = "none"

====
